---- MODULE Spec2Model ----
(***************************************************************************)
(* Model of the vessel-identity and fishing-effort scripts:                *)
(*   src/src/IMO_to_VesselID/IMO_TO_Vessel_id.py  (interval merging,       *)
(*       effort classification, the thread-pool batch)                     *)
(*   src/src/scripts/IMO_TO_SSID.py               (the lookup cascade and  *)
(*       the local JSON cache)                                             *)
(*                                                                         *)
(* Conventions.  Python's None is the string "None"; a Python value is     *)
(* truthy when it is neither None nor the empty string.  A nullable number *)
(* is <<>> (None) or <<n>>.  Timestamps are counted in half hours, so a    *)
(* total of n units is n/2 hours and a threshold of h hours is 2h units.   *)
(***************************************************************************)
EXTENDS Integers, Sequences, FiniteSets, TLC

VARIABLES
    \* ---- get_vessel_details called on a registry reply (lines 78-124)
    data,         \* what _fetch_vessel_data hands back
    result,       \* the value returned
    dpc,          \* "idle" | "ready" | "returned"
    \* ---- calculate_total_hours called on a list of events (lines 60-76)
    given_events, \* the list of events
    returned_hours, \* the value returned: <<>> before the call, <<total>> after
    tpc,          \* "idle" | "ready" | "returned"
    \* ---- merge_intervals called on a list (IMO_TO_Vessel_id.py:43-58)
    given,        \* the list as the caller built it, before the call
    intervals,    \* the caller's list object (sorted in place by the call)
    merged,       \* the value returned
    mpc,          \* "idle" | "ready" | "returned"
    \* ---- main() and process_vessel (IMO_TO_Vessel_id.py:126-197, 268-311)
    unique_imos,  \* the deduplicated IMO column, one future each
    threshold,    \* fishing_hours_threshold, in half hours
    gfw_vessels,  \* which answers the vessel lookup can give in this run
    gfw_events,   \* which events the events endpoint can serve in this run
    wpc,          \* per IMO: "none" | "queued" | "fetching" | "fetched" |
                  \*          "returned" | "raised" | "stuck" (in session.get)
    details,      \* per IMO: process_vessel.details
    all_events,   \* per IMO: fetch_fishing_events.all_events
    offset,       \* per IMO: fetch_fishing_events.params["offset"]
    next_offset,  \* per IMO: "present" | "absent" for the test of line 152 on
                  \*          the page just read, "none" outside the loop
    event_calls,  \* per IMO: requests sent to the events endpoint
    row,          \* per IMO: the value process_vessel returned
    results,      \* main.results
    mainpc,       \* "idle" | "collecting" | "written" | "aborted"
    \* ---- process_vessel_list and the cache (IMO_TO_SSID.py:32-43, 318-403)
    db_file,      \* content of data/reference/senegal_vessel_database.json
    local_db,     \* the module-level dict local_db
    rows,         \* the rows of the input CSV after the header: [imo, name]
    rowi,         \* index of the row being processed
    rpc,          \* "idle" | "fatal" (the load raised) | "row" |
                  \*          the request site reached | "done"
    requests,     \* registry requests sent for the current row, in order
    faulted,      \* the last registry request ended in the except clause
    response,     \* what the last registry request of the row got back: the
                  \*   status, the number of entries, and the lists ssvids and
                  \*   vessel_ids as lines 47-98 collect them
    result_rows,  \* process_vessel_list.results
    gfw_search    \* which answers the search endpoint can give in this run

fvars == <<data, result, dpc, given_events, returned_hours, tpc>>
mvars == <<given, intervals, merged, mpc>>
bvars == <<unique_imos, threshold, gfw_vessels, gfw_events, wpc, details,
           all_events, offset, next_offset, event_calls, row, results, mainpc>>
rvars == <<db_file, local_db, rows, rowi, rpc, requests, faulted, response,
           result_rows, gfw_search>>
vars == <<fvars, mvars, bvars, rvars>>

\* The variables of a part of the program that a specification does not run.
Imos == {"9999999", "8888888"}
FunctionsIdle ==
    /\ data = [kind |-> "none", entries |-> <<>>]
    /\ result = [found |-> FALSE, vessel_id |-> "None", name |-> "None",
                 flag |-> "None"]
    /\ dpc = "idle"
    /\ given_events = <<>>
    /\ returned_hours = <<>>
    /\ tpc = "idle"
MergeIdle ==
    /\ given = <<>>
    /\ intervals = <<>>
    /\ merged = <<>>
    /\ mpc = "idle"
BatchIdle ==
    /\ unique_imos = <<>>
    /\ threshold = 0
    /\ gfw_vessels = "none"
    /\ gfw_events = "none"
    /\ wpc = [i \in Imos |-> "none"]
    /\ details = [i \in Imos |-> [found |-> FALSE, vessel_id |-> "None",
                                  name |-> "None", flag |-> "None"]]
    /\ all_events = [i \in Imos |-> <<>>]
    /\ offset = [i \in Imos |-> 0]
    /\ next_offset = [i \in Imos |-> "none"]
    /\ event_calls = [i \in Imos |-> 0]
    /\ row = [i \in Imos |-> [IMO |-> i, name |-> "None", vessel_id |-> "None",
                              flag |-> "None", total |-> <<>>,
                              classification |-> "none"]]
    /\ results = <<>>
    /\ mainpc = "idle"
RowImos == {"", "9999999"}
ResolverIdle ==
    /\ db_file = [state |-> "missing", db |-> <<>>]
    /\ local_db = <<>>
    /\ rows = <<>>
    /\ rowi = 0
    /\ rpc = "idle"
    /\ requests = <<>>
    /\ faulted = FALSE
    /\ response = [kind |-> "none", entries |-> 0, ssvids |-> <<>>,
                   vessel_ids |-> <<>>]
    /\ result_rows = <<>>
    /\ gfw_search = "none"

None == "None"
Truthy(v) == v /= None /\ v /= ""

\* ------------------------------------------------------------ bounds
MaxT == 3          \* timestamps range over 0..MaxT half hours
MaxLen == 3        \* longest list handed to merge_intervals
MaxEvents == 3     \* most events the events endpoint serves for one vessel

Times == 0..MaxT
Max2Min(a, b) == IF a >= b THEN b ELSE a

Max2(a, b) == IF a >= b THEN a ELSE b

SeqsUpTo(S, n) == UNION {[1..k -> S] : k \in 0..n}

\* ------------------------------------------------ merge_intervals
\* list.sort(key=lambda x: x[0]) is stable: x goes behind every element
\* whose start is <= its own.
RECURSIVE InsertByStart(_, _)
InsertByStart(s, x) ==
    IF s = <<>> THEN <<x>>
    ELSE IF x[1] < Head(s)[1] THEN <<x>> \o s
    ELSE <<Head(s)>> \o InsertByStart(Tail(s), x)

SortByStartNone(s) == s

RECURSIVE SortByStart(_)
SortByStart(s) ==
    IF s = <<>> THEN <<>>
    ELSE InsertByStart(SortByStart(SubSeq(s, 1, Len(s) - 1)), s[Len(s)])

\* One iteration of the for loop of merge_intervals on the list built so far.
MergeStepBad(acc, current) ==
    LET last == acc[Len(acc)]
    IN  IF current[1] <= last[2]
        THEN [acc EXCEPT ![Len(acc)] = <<last[1], current[2]>>]
        ELSE Append(acc, current)

MergeStepPadded(acc, current) ==
    LET last == acc[Len(acc)]
    IN  IF current[1] <= last[2]
        THEN [acc EXCEPT ![Len(acc)] = <<last[1], Max2(last[2], current[2])>>]
        ELSE Append(acc, <<current[1] - 1, current[2]>>)

MergeStep(acc, current) ==
    LET last == acc[Len(acc)]
    IN  IF current[1] <= last[2]
        THEN [acc EXCEPT ![Len(acc)] = <<last[1], Max2(last[2], current[2])>>]
        ELSE Append(acc, current)

RECURSIVE MergeScan(_, _)
MergeScan(acc, rest) ==
    IF rest = <<>> THEN acc
    ELSE MergeScan(MergeStep(acc, Head(rest)), Tail(rest))

\* merge_intervals(l): the returned list, and the list object after the call.
merge_intervals(l) ==
    IF l = <<>> THEN [merged |-> <<>>, list |-> l]
    ELSE LET sorted == SortByStart(l)
         IN  [merged |-> MergeScan(<<sorted[1]>>, Tail(sorted)), list |-> sorted]

\* ------------------------------------------------ parse_timestamp
\* A timestamp string: its format and the instant it names.  "ms" is
\* "%Y-%m-%dT%H:%M:%S.%fZ", "plain" is "%Y-%m-%dT%H:%M:%SZ", "bad" is a string
\* in neither format, "none" is a missing value, "empty" is "".
Ts(f, t) == [fmt |-> f, t |-> t]

parse_timestampMsOnly(ts) == IF ts.fmt = "ms" THEN <<ts.t>> ELSE <<>>

\* parse_timestamp(ts): <<instant>>, or <<>> for None.
parse_timestamp(ts) ==
    IF ts.fmt = "ms" THEN <<ts.t>>
    ELSE IF ts.fmt = "plain" THEN <<ts.t>>
    ELSE <<>>

\* ------------------------------------------------ calculate_total_hours
\* The (start, end) tuples appended by the loop over the events.
RECURSIVE EventIntervals(_)
EventIntervals(events) ==
    IF events = <<>> THEN <<>>
    ELSE LET event == Head(events)
             rest == EventIntervals(Tail(events))
         IN  IF event.start.fmt \notin {"none", "empty"}
                /\ event.end.fmt \notin {"none", "empty"}
             THEN LET start == parse_timestamp(event.start)
                      end == parse_timestamp(event.end)
                  IN  IF start /= <<>> /\ end /= <<>>
                      THEN <<<<start[1], end[1]>>>> \o rest
                      ELSE rest
             ELSE rest

RECURSIVE SumDurations(_)
SumDurations(l) ==
    IF l = <<>> THEN 0 ELSE (Head(l)[2] - Head(l)[1]) + SumDurations(Tail(l))

\* calculate_total_hours(events), in half hours.
calculate_total_hours(events) ==
    SumDurations(merge_intervals(EventIntervals(events)).merged)

\* ------------------------------------------------ get_vessel_details
\* dict.get("shipname", default) tells a missing key from a null value.
Missing == "<missing>"

NoDetails == [found |-> FALSE, vessel_id |-> None, name |-> None, flag |-> None]

\* A reply of _fetch_vessel_data: kind "raise" (an exception), "none" (None or
\* an empty dict) or "ok" (a dict with "entries").  registryInfo and
\* selfReportedInfo are lists; a dict there reads like a list of one.
get_vessel_details(reply) ==
    IF reply.kind = "raise" THEN NoDetails
    ELSE IF reply.kind = "none" \/ reply.entries = <<>> THEN NoDetails
    ELSE LET vessel == reply.entries[1]
             reg == vessel.registryInfo
             srep == vessel.selfReportedInfo
             flag1 == IF reg /= <<>> THEN reg[1].flag ELSE None
             vid1 == IF reg /= <<>> THEN reg[1].id ELSE None
             vid2 == IF srep /= <<>> /\ ~Truthy(vid1) THEN srep[1].id ELSE vid1
             name2 == IF srep /= <<>> /\ srep[1].shipname /= Missing
                      THEN srep[1].shipname ELSE "Unknown"
             flag2 == IF srep /= <<>> /\ ~Truthy(flag1) THEN srep[1].flag ELSE flag1
             vid3 == IF ~Truthy(vid2) /\ Truthy(vessel.id) THEN vessel.id ELSE vid2
         IN  [found |-> TRUE, vessel_id |-> vid3, name |-> name2, flag |-> flag2]

\* ------------------------------------------------ process_vessel
Row(imo, name, vid, flag, total, class) ==
    [IMO |-> imo, name |-> name, vessel_id |-> vid, flag |-> flag,
     total |-> total, classification |-> class]

BeforeFetchFlagNone(imo, d) ==
    IF ~d.found
    THEN [IMO |-> imo, name |-> None, vessel_id |-> None, flag |-> None,
          total |-> <<>>, classification |-> "No metadata"]
    ELSE IF Truthy(d.flag) /\ d.flag /= "SEN"
    THEN [IMO |-> imo, name |-> d.name, vessel_id |-> d.vessel_id, flag |-> d.flag,
          total |-> <<>>, classification |-> "Suspect (Non-Senegalese flag)"]
    ELSE IF ~Truthy(d.vessel_id)
    THEN [IMO |-> imo, name |-> d.name, vessel_id |-> None, flag |-> d.flag,
          total |-> <<>>, classification |-> "No vessel_id"]
    ELSE [IMO |-> imo, name |-> d.name, vessel_id |-> d.vessel_id, flag |-> d.flag,
          total |-> <<>>, classification |-> "fetch"]

\* Lines 158-185: the rows process_vessel returns without fetching events;
\* "fetch" when it goes on to fetch_fishing_events.
BeforeFetch(imo, d) ==
    IF ~d.found
    THEN Row(imo, None, None, None, <<>>, "No metadata")
    ELSE IF d.flag /= "SEN"
    THEN Row(imo, d.name, d.vessel_id, d.flag, <<>>, "Suspect (Non-Senegalese flag)")
    ELSE IF ~Truthy(d.vessel_id)
    THEN Row(imo, d.name, None, d.flag, <<>>, "No vessel_id")
    ELSE Row(imo, d.name, d.vessel_id, d.flag, <<>>, "fetch")

ClassificationLe(total_hours, fishing_hours_threshold) ==
    IF total_hours <= fishing_hours_threshold
    THEN "Suspect (Low fishing effort)"
    ELSE "Genuine"

\* Lines 187-197.
Classification(total_hours, fishing_hours_threshold) ==
    IF total_hours < fishing_hours_threshold
    THEN "Suspect (Low fishing effort)"
    ELSE "Genuine"

AfterFetch(imo, d, events, fishing_hours_threshold) ==
    LET total_hours == calculate_total_hours(events)
    IN  Row(imo, d.name, d.vessel_id, d.flag, <<total_hours>>,
            Classification(total_hours, fishing_hours_threshold))

\* ------------------------------------------------ the merge specification
AllIntervals == Times \X Times
WellFormed(l) == \A i \in 1..Len(l) : l[i][1] <= l[i][2]

InitMerge ==
    /\ given \in SeqsUpTo(AllIntervals, MaxLen)
    /\ intervals = given
    /\ merged = <<>>
    /\ mpc = "ready"
    /\ FunctionsIdle
    /\ BatchIdle
    /\ ResolverIdle

CallMerge ==
    /\ mpc = "ready"
    /\ LET r == merge_intervals(intervals)
       IN  /\ merged' = r.merged
           /\ intervals' = r.list
    /\ mpc' = "returned"
    /\ UNCHANGED given
    /\ UNCHANGED <<fvars, bvars, rvars>>

NextMerge == CallMerge

SpecMerge == InitMerge /\ [][NextMerge]_vars

\* ------------------------------------------------ main() and its workers
max_workers == 5
DefaultThresholdHours == 500
Units(hours) == 2 * hours

Range(f) == {f[x] : x \in DOMAIN f}
Running == {i \in Imos : wpc[i] \in {"fetching", "fetched", "stuck"}}

Event(s, e) == [start |-> s, end |-> e]

OkReply(entries) == [kind |-> "ok", entries |-> entries]
RaiseReply == [kind |-> "raise", entries |-> <<>>]
NoneReply == [kind |-> "none", entries |-> <<>>]

\* ---- what the two services can answer
RegRecs == [flag : {None, "SEN", "ESP"}, id : {None, "reg-id"},
            shipname : {Missing, "REG VESSEL"}]
SrepRecs == [id : {None, "srep-id"}, shipname : {Missing, None, "TEST VESSEL"},
             flag : {None, "SEN", "ESP"}]
ListOfOne(S) == {<<>>} \cup {<<x>> : x \in S}
Vessels == [registryInfo : ListOfOne(RegRecs),
            selfReportedInfo : ListOfOne(SrepRecs),
            id : {None, "top-id"}]
VesselReplies ==
    {RaiseReply, NoneReply, OkReply(<<>>)} \cup {OkReply(<<v>>) : v \in Vessels}

\* The events of the scenarios: 10:00-12:00, 11:30-13:00, 14:00-15:00 and
\* 10:00-10:30, in half hours after 10:00.
ScenarioEvents ==
    {Event(Ts("ms", 0), Ts("ms", 4)), Event(Ts("ms", 3), Ts("plain", 6)),
     Event(Ts("plain", 8), Ts("ms", 10)), Event(Ts("ms", 0), Ts("ms", 1))}

\* The answers of a smaller registry and a smaller events endpoint.
BatchVessels ==
    {v \in Vessels : /\ v.selfReportedInfo = <<>>
                     /\ v.id = None
                     /\ \A k \in 1..Len(v.registryInfo) :
                           v.registryInfo[k].shipname = Missing}
BatchEvents == {Event(Ts("ms", 0), Ts("ms", 1)), Event(Ts("ms", 0), Ts("bad", 0))}

VesselAnswers ==
    IF gfw_vessels = "any" THEN VesselReplies
    ELSE IF gfw_vessels = "registry-only"
    THEN {RaiseReply} \cup {OkReply(<<v>>) : v \in BatchVessels}
    ELSE {}
EventsServed ==
    IF gfw_events = "scenario" THEN ScenarioEvents
    ELSE IF gfw_events = "short" THEN BatchEvents
    ELSE {}

\* A page of the events endpoint: "raise" (session.get or response.json()
\* raises), "status" (a status other than 200), "ok", or "stuck": no
\* response ever arrives, and session.get at line 142 has no timeout.
Page(kind, entries, next) == [kind |-> kind, entries |-> entries, next |-> next]
EventReplies(i) ==
    {Page("raise", <<>>, FALSE), Page("status", <<>>, FALSE),
     Page("stuck", <<>>, FALSE)}
    \cup {Page("ok", es, n) :
            es \in SeqsUpTo(EventsServed, MaxEvents - Len(all_events[i])),
            n \in BOOLEAN}

\* A worker thread takes the future of imo off the queue and runs
\* process_vessel up to its first events request (lines 156-186).
Lookup(i) ==
    /\ mainpc = "collecting"
    /\ wpc[i] = "queued"
    /\ Cardinality(Running) < max_workers
    /\ \E reply \in VesselAnswers :
        LET d == get_vessel_details(reply)
            r == BeforeFetch(i, d)
        IN  /\ details' = [details EXCEPT ![i] = d]
            /\ IF r.classification = "fetch"
               THEN /\ wpc' = [wpc EXCEPT ![i] = "fetching"]
                    /\ UNCHANGED row
               ELSE /\ wpc' = [wpc EXCEPT ![i] = "returned"]
                    /\ row' = [row EXCEPT ![i] = r]
    /\ UNCHANGED <<unique_imos, threshold, gfw_vessels, gfw_events, all_events,
                   offset, next_offset, event_calls, results, mainpc>>
    /\ UNCHANGED <<fvars, mvars, rvars>>

FetchPageFixedStep(i) ==
    /\ wpc[i] = "fetching"
    /\ event_calls' = [event_calls EXCEPT ![i] = @ + 1]
    /\ \E page \in EventReplies(i) :
        IF page.kind \in {"raise", "stuck"}
        THEN /\ wpc' = [wpc EXCEPT ![i] = IF page.kind = "stuck" THEN "stuck"
                                          ELSE "raised"]
             /\ next_offset' = [next_offset EXCEPT ![i] = "none"]
             /\ UNCHANGED <<all_events, offset>>
        ELSE IF page.kind = "status" \/ page.entries = <<>>
        THEN /\ wpc' = [wpc EXCEPT ![i] = "fetched"]
             /\ next_offset' = [next_offset EXCEPT ![i] = "none"]
             /\ UNCHANGED <<all_events, offset>>
        ELSE /\ all_events' = [all_events EXCEPT ![i] = @ \o page.entries]
             /\ offset' = [offset EXCEPT ![i] = @ + 1]
             /\ next_offset' = [next_offset EXCEPT ![i] =
                                  IF page.next THEN "present" ELSE "absent"]
             /\ wpc' = [wpc EXCEPT ![i] = IF page.next THEN "fetching" ELSE "fetched"]
    /\ UNCHANGED <<unique_imos, threshold, gfw_vessels, gfw_events, details,
                   row, results, mainpc>>
    /\ UNCHANGED <<fvars, mvars, rvars>>

\* One turn of the while loop of fetch_fishing_events (lines 141-153).
FetchPage(i) ==
    /\ wpc[i] = "fetching"
    /\ event_calls' = [event_calls EXCEPT ![i] = @ + 1]
    /\ \E page \in EventReplies(i) :
        IF page.kind \in {"raise", "stuck"}
        THEN /\ wpc' = [wpc EXCEPT ![i] = IF page.kind = "stuck" THEN "stuck"
                                          ELSE "raised"]
             /\ next_offset' = [next_offset EXCEPT ![i] = "none"]
             /\ UNCHANGED <<all_events, offset>>
        ELSE IF page.kind = "status" \/ page.entries = <<>>
        THEN /\ wpc' = [wpc EXCEPT ![i] = "fetched"]
             /\ next_offset' = [next_offset EXCEPT ![i] = "none"]
             /\ UNCHANGED <<all_events, offset>>
        ELSE /\ all_events' = [all_events EXCEPT ![i] = @ \o page.entries]
             /\ offset' = [offset EXCEPT ![i] = @ + Len(page.entries)]
             /\ next_offset' = [next_offset EXCEPT ![i] =
                                  IF page.next THEN "present" ELSE "absent"]
             /\ wpc' = [wpc EXCEPT ![i] = IF page.next THEN "fetching" ELSE "fetched"]
    /\ UNCHANGED <<unique_imos, threshold, gfw_vessels, gfw_events, details,
                   row, results, mainpc>>
    /\ UNCHANGED <<fvars, mvars, rvars>>

\* fetch_fishing_events has returned (its page is out of scope): lines 187-197.
Classify(i) ==
    /\ wpc[i] = "fetched"
    /\ row' = [row EXCEPT ![i] = AfterFetch(i, details[i], all_events[i], threshold)]
    /\ wpc' = [wpc EXCEPT ![i] = "returned"]
    /\ next_offset' = [next_offset EXCEPT ![i] = "none"]
    /\ UNCHANGED <<unique_imos, threshold, gfw_vessels, gfw_events, details,
                   all_events, offset, event_calls, results, mainpc>>
    /\ UNCHANGED <<fvars, mvars, rvars>>

InResults(i) == \E k \in 1..Len(results) : results[k].IMO = i

\* as_completed yields a finished future; future.result() returns its row or
\* raises what process_vessel raised (lines 304-306).
Collect(i) ==
    /\ mainpc = "collecting"
    /\ ~InResults(i)
    /\ \/ /\ wpc[i] = "returned"
          /\ results' = Append(results, row[i])
          /\ UNCHANGED mainpc
       \/ /\ wpc[i] = "raised"
          /\ mainpc' = "aborted"
          /\ UNCHANGED results
    /\ UNCHANGED <<unique_imos, threshold, gfw_vessels, gfw_events, wpc, details,
                   all_events, offset, next_offset, event_calls, row>>
    /\ UNCHANGED <<fvars, mvars, rvars>>

\* Lines 309-310: the report is written once every future has been collected.
WriteReportEarly ==
    /\ mainpc = "collecting"
    /\ \E i \in Range(unique_imos) : InResults(i)
    /\ mainpc' = "written"
    /\ UNCHANGED <<unique_imos, threshold, gfw_vessels, gfw_events, wpc, details,
                   all_events, offset, next_offset, event_calls, row, results>>
    /\ UNCHANGED <<fvars, mvars, rvars>>

WriteReport ==
    /\ mainpc = "collecting"
    /\ \A i \in Range(unique_imos) : InResults(i)
    /\ mainpc' = "written"
    /\ UNCHANGED <<unique_imos, threshold, gfw_vessels, gfw_events, wpc, details,
                   all_events, offset, next_offset, event_calls, row, results>>
    /\ UNCHANGED <<fvars, mvars, rvars>>

NextBatch ==
    \/ \E i \in Imos : Lookup(i)
    \/ \E i \in Imos : FetchPage(i)
    \/ \E i \in Imos : Classify(i)
    \/ \E i \in Imos : Collect(i)
    \/ WriteReport

QueueAll(imos) == [i \in Imos |-> IF i \in Range(imos) THEN "queued" ELSE "none"]

\* ---- process_vessel for one IMO, any threshold
InitVessel ==
    /\ FunctionsIdle
    /\ MergeIdle
    /\ ResolverIdle
    /\ unique_imos = <<"9999999">>
    /\ threshold \in {Units(3), Units(DefaultThresholdHours)}
    /\ gfw_vessels = "any"
    /\ gfw_events = "scenario"
    /\ wpc = QueueAll(unique_imos)
    /\ details = [i \in Imos |-> NoDetails]
    /\ all_events = [i \in Imos |-> <<>>]
    /\ offset = [i \in Imos |-> 0]
    /\ next_offset = [i \in Imos |-> "none"]
    /\ event_calls = [i \in Imos |-> 0]
    /\ row = [i \in Imos |-> Row(i, None, None, None, <<>>, "none")]
    /\ results = <<>>
    /\ mainpc = "collecting"

SpecVessel == InitVessel /\ [][NextBatch]_vars

\* ---- main(): the whole batch on the thread pool, threshold of line 282
DistinctSeqs(S) ==
    {q \in SeqsUpTo(S, Cardinality(S)) : \A a, b \in 1..Len(q) : a /= b => q[a] /= q[b]}

InitBatch ==
    /\ FunctionsIdle
    /\ MergeIdle
    /\ ResolverIdle
    /\ unique_imos \in DistinctSeqs(Imos)
    /\ threshold = Units(DefaultThresholdHours)
    /\ gfw_vessels = "registry-only"
    /\ gfw_events = "short"
    /\ wpc = QueueAll(unique_imos)
    /\ details = [i \in Imos |-> NoDetails]
    /\ all_events = [i \in Imos |-> <<>>]
    /\ offset = [i \in Imos |-> 0]
    /\ next_offset = [i \in Imos |-> "none"]
    /\ event_calls = [i \in Imos |-> 0]
    /\ row = [i \in Imos |-> Row(i, None, None, None, <<>>, "none")]
    /\ results = <<>>
    /\ mainpc = "collecting"

SpecBatch == InitBatch /\ [][NextBatch]_vars

\* The threads keep running: a step that can be taken is taken.
SpecBatchLive == InitBatch /\ [][NextBatch]_vars /\ WF_vars(NextBatch)

\* ------------------------------------------------ get_vessel_details alone
InitDetails ==
    /\ MergeIdle
    /\ BatchIdle
    /\ ResolverIdle
    /\ data \in VesselReplies
    /\ result = NoDetails
    /\ dpc = "ready"
    /\ given_events = <<>>
    /\ returned_hours = <<>>
    /\ tpc = "idle"

CallDetails ==
    /\ dpc = "ready"
    /\ result' = get_vessel_details(data)
    /\ dpc' = "returned"
    /\ UNCHANGED <<data, given_events, returned_hours, tpc>>
    /\ UNCHANGED <<mvars, bvars, rvars>>

NextDetails == CallDetails

SpecDetails == InitDetails /\ [][NextDetails]_vars

\* ------------------------------------------------ calculate_total_hours alone
MaxStamp == 1      \* the timestamps of these events name instants 0..MaxStamp
MaxFetched == 2    \* longest list handed to calculate_total_hours

\* Timestamps in both accepted formats, a string in neither, a missing value.
Stamps ==
    {Ts(f, t) : f \in {"ms", "plain"}, t \in 0..MaxStamp}
    \cup {Ts("bad", 0), Ts("none", 0)}
StampedEvents == {Event(s, e) : s \in Stamps, e \in Stamps}

InitTotals ==
    /\ MergeIdle
    /\ BatchIdle
    /\ ResolverIdle
    /\ data = NoneReply
    /\ result = NoDetails
    /\ dpc = "idle"
    /\ given_events \in SeqsUpTo(StampedEvents, MaxFetched)
    /\ returned_hours = <<>>
    /\ tpc = "ready"

CallTotals ==
    /\ tpc = "ready"
    /\ returned_hours' = <<calculate_total_hours(given_events)>>
    /\ tpc' = "returned"
    /\ UNCHANGED <<data, result, dpc, given_events>>
    /\ UNCHANGED <<mvars, bvars, rvars>>

NextTotals == CallTotals

SpecTotals == InitTotals /\ [][NextTotals]_vars

\* ================================================ IMO_TO_SSID.py
\* ------------------------------------------------ the cache
\* An entry of local_db: a dict whose keys may be missing ("details" is <<>>
\* when missing, <<d>> when it holds d).
Entry(name, ssvid, vessel_id, source, det) ==
    [present |-> TRUE, name |-> name, ssvid |-> ssvid, vessel_id |-> vessel_id,
     source |-> source, details |-> det]
AbsentEntry ==
    [present |-> FALSE, name |-> Missing, ssvid |-> Missing, vessel_id |-> Missing,
     source |-> Missing, details |-> <<>>]
EmptyDb == [k \in RowImos |-> AbsentEntry]

\* Lines 33-37: json.load of the file, {} when it is missing
\* (FileNotFoundError) or its text is not JSON (JSONDecodeError).
LoadDb(file) == IF file.state = "ok" THEN file.db ELSE EmptyDb
\* A file whose bytes are not text in the default encoding makes json.load
\* raise UnicodeDecodeError, which line 36 does not catch: the module stops
\* while it is being loaded.
LoadRaises(file) == file.state = "undecodable"

\* dict.get(key): None for a missing key.
Get(v) == IF v = Missing THEN None ELSE v

\* ------------------------------------------------ extract_ssvids_from_response
RECURSIVE InfoWrites(_)
InfoWrites(infos) ==
    IF infos = <<>> THEN <<>>
    ELSE LET info == Head(infos)
         IN  (IF Truthy(Get(info.ssvid))
              THEN <<[ssvid |-> info.ssvid, det |-> [shipname |-> info.shipname]]>>
              ELSE <<>>) \o InfoWrites(Tail(infos))

\* The (ssvid, details) pairs one entry contributes, in the order written:
\* selfReportedInfo, registryInfo, then the entry's own ssvid.
VesselWrites(vessel) ==
    InfoWrites(vessel.selfReportedInfo) \o InfoWrites(vessel.registryInfo)
    \o InfoWrites(<<[ssvid |-> vessel.ssvid, shipname |-> vessel.shipname]>>)

RECURSIVE EntryWrites(_)
EntryWrites(entries) ==
    IF entries = <<>> THEN <<>>
    ELSE VesselWrites(Head(entries)) \o EntryWrites(Tail(entries))

LastWrite(w, s) ==
    LET k == CHOOSE j \in 1..Len(w) :
                 w[j].ssvid = s /\ \A m \in (j + 1)..Len(w) : w[m].ssvid /= s
    IN  w[k].det

\* The lists ssvids and vessel_ids of lines 47-98, before line 101.
CollectedSsvids(entries) ==
    LET w == EntryWrites(entries) IN [j \in 1..Len(w) |-> w[j].ssvid]
RECURSIVE CollectedIds(_)
CollectedIds(entries) ==
    IF entries = <<>> THEN <<>>
    ELSE (IF Truthy(Head(entries).id) THEN <<Head(entries).id>> ELSE <<>>)
         \o CollectedIds(Tail(entries))

\* What a request got back, as the code sees it.
NoResponse == [kind |-> "none", entries |-> 0, ssvids |-> <<>>, vessel_ids |-> <<>>]
Received(reply) ==
    [kind |-> reply.kind, entries |-> Len(reply.entries),
     ssvids |-> IF reply.kind = "ok" THEN CollectedSsvids(reply.entries) ELSE <<>>,
     vessel_ids |-> IF reply.kind = "ok" THEN CollectedIds(reply.entries) ELSE <<>>]

extract_ssvidsSelfReportedOnly(entries) ==
    LET w == EntryWrites([j \in 1..Len(entries) |->
                            [entries[j] EXCEPT !.registryInfo = <<>>, !.ssvid = None]])
        found == {w[j].ssvid : j \in 1..Len(w)}
    IN  [ssvids |-> found,
         vessel_ids |-> {entries[j].id : j \in {m \in 1..Len(entries) : Truthy(entries[m].id)}},
         details |-> [x \in found |-> LastWrite(w, x)]]

\* extract_ssvids_from_response(data): list(set(...)) keeps no order, so the
\* two lists are returned as sets.
extract_ssvids_from_response(entries) ==
    LET w == EntryWrites(entries)
        found == {w[j].ssvid : j \in 1..Len(w)}
    IN  [ssvids |-> found,
         vessel_ids |-> {entries[j].id : j \in {m \in 1..Len(entries) : Truthy(entries[m].id)}},
         details |-> [x \in found |-> LastWrite(w, x)]]

\* ------------------------------------------------ the search functions
\* What one request site hands back: (ssvid, vessel_id, source,
\* details.get(ssvid) as <<>> or <<d>>) and whether the except clause ran.
Found(ssvid, vessel_id, source, det, fault) ==
    [ssvid |-> ssvid, vessel_id |-> vessel_id, source |-> source, details |-> det,
     fault |-> fault]
Nothing(fault) == Found(None, None, None, <<>>, fault)

\* A request of search_vessel_advanced or search_vessel_basic (e.g. lines
\* 200-217) and the return at lines 278-281 once it has matched.
SiteResults(reply, source) ==
    IF reply.kind = "raise" THEN {Nothing(TRUE)}
    ELSE IF reply.kind = "status" THEN {Nothing(FALSE)}
    ELSE LET x == extract_ssvids_from_response(reply.entries)
         IN  IF x.ssvids = {} THEN {Nothing(FALSE)}
             ELSE {Found(sv, vid, source, <<x.details[sv]>>, FALSE) :
                     sv \in x.ssvids,
                     vid \in IF x.vessel_ids = {} THEN {None} ELSE x.vessel_ids}

\* The request of search_vessel_combined (lines 300-316): vessel_ids[0] of an
\* empty list raises IndexError inside the try.
CombinedResults(reply) ==
    IF reply.kind = "raise" THEN {Nothing(TRUE)}
    ELSE IF reply.kind = "status" THEN {Nothing(FALSE)}
    ELSE LET x == extract_ssvids_from_response(reply.entries)
         IN  IF x.ssvids = {} THEN {Nothing(FALSE)}
             ELSE IF x.vessel_ids = {} THEN {Nothing(TRUE)}
             ELSE {Found(sv, vid, "GFW-combined", <<x.details[sv]>>, FALSE) :
                     sv \in x.ssvids, vid \in x.vessel_ids}

\* ---- what the search endpoint can answer
SearchInfos == [ssvid : {None, "ssvid-1"}, shipname : {"TEST VESSEL"}]
SearchVessels ==
    [id : {None, "vid-1"}, selfReportedInfo : ListOfOne(SearchInfos),
     registryInfo : ListOfOne(SearchInfos), ssvid : {None, "ssvid-1"},
     shipname : {"TEST VESSEL"}]
SearchReply(kind, entries) == [kind |-> kind, entries |-> entries]
\* Answers with several candidates: two entries with an ssvid each, and one
\* entry with an ssvid in selfReportedInfo and another in registryInfo.
Candidate(id, srep, reg) ==
    [id |-> id, selfReportedInfo |-> srep, registryInfo |-> reg, ssvid |-> None,
     shipname |-> "TEST VESSEL"]
Info(ssvid) == [ssvid |-> ssvid, shipname |-> "TEST VESSEL"]
SeveralCandidates ==
    {<<Candidate("vid-1", <<Info("ssvid-1")>>, <<>>),
       Candidate("vid-2", <<Info("ssvid-2")>>, <<>>)>>,
     <<Candidate("vid-1", <<Info("ssvid-1")>>, <<Info("ssvid-2")>>)>>}
SearchReplies ==
    IF gfw_search = "any"
    THEN {SearchReply("raise", <<>>), SearchReply("status", <<>>), SearchReply("ok", <<>>)}
         \cup {SearchReply("ok", <<v>>) : v \in SearchVessels}
    ELSE IF gfw_search = "several"
    THEN {SearchReply("status", <<>>), SearchReply("ok", <<>>)}
         \cup {SearchReply("ok", es) : es \in SeveralCandidates}
    ELSE {}

\* ------------------------------------------------ process_vessel_list
Sites == <<"combined", "adv_imo", "adv_name", "adv_partial", "basic_imo", "basic_name">>
SiteSource(site) ==
    CASE site = "combined" -> "GFW-combined"
      [] site = "adv_imo" -> "GFW-IMO-advanced"
      [] site = "adv_name" -> "GFW-name-advanced"
      [] site = "adv_partial" -> "GFW-name-partial"
      [] site = "basic_imo" -> "GFW-IMO-basic"
      [] site = "basic_name" -> "GFW-name-basic"
SiteAsksAlways(site, imo, name) == TRUE

\* Whether the site sends its request for this row (lines 289, 191, 220, 249,
\* 117, 146).
SiteAsks(site, imo, name) ==
    CASE site = "combined" -> Truthy(imo) /\ Truthy(name)
      [] site \in {"adv_imo", "basic_imo"} -> Truthy(imo)
      [] OTHER -> Truthy(name)
NextSiteBasicFirst(site) ==
    CASE site = "combined" -> "basic_imo"
      [] site = "basic_imo" -> "basic_name"
      [] site = "basic_name" -> "adv_imo"
      [] site = "adv_imo" -> "adv_name"
      [] site = "adv_name" -> "adv_partial"
      [] site = "adv_partial" -> "end"

NextSiteNameFirst(site) ==
    CASE site = "combined" -> "adv_name"
      [] site = "adv_name" -> "adv_imo"
      [] site = "adv_imo" -> "adv_partial"
      [] site = "adv_partial" -> "basic_name"
      [] site = "basic_name" -> "basic_imo"
      [] site = "basic_imo" -> "end"

NextSiteSkipping(site) ==
    CASE site = "combined" -> "adv_imo"
      [] site = "adv_imo" -> "basic_imo"
      [] site = "adv_name" -> "adv_partial"
      [] site = "adv_partial" -> "basic_imo"
      [] site = "basic_imo" -> "basic_name"
      [] site = "basic_name" -> "end"

NextSite(site) ==
    CASE site = "combined" -> "adv_imo"
      [] site = "adv_imo" -> "adv_name"
      [] site = "adv_name" -> "adv_partial"
      [] site = "adv_partial" -> "basic_imo"
      [] site = "basic_imo" -> "basic_name"
      [] site = "basic_name" -> "end"

OrNotFound(v) == IF Truthy(v) THEN v ELSE "Not found"

\* Lines 359-369: the in-place update of local_db[imo].
StoreBad(db, imo, vessel_name, f) == db

Store(db, imo, vessel_name, f) ==
    IF Truthy(f.ssvid)
    THEN [db EXCEPT ![imo] =
            Entry(vessel_name, f.ssvid, f.vessel_id, f.source,
                  IF f.details /= <<>> THEN f.details ELSE @.details)]
    ELSE db

ResultRowRaw(imo, vessel_name, f) ==
    [imo |-> imo, name |-> vessel_name, ssvid |-> OrNotFound(f.ssvid),
     vessel_id |-> f.vessel_id, source |-> f.source]

\* Lines 380-387.
ResultRow(imo, vessel_name, f) ==
    [imo |-> imo, name |-> vessel_name, ssvid |-> OrNotFound(f.ssvid),
     vessel_id |-> OrNotFound(f.vessel_id), source |-> OrNotFound(f.source)]

\* Lines 359-390: the end of the loop body for the current row.
FinishRow(f) ==
    LET r == rows[rowi]
    IN  /\ local_db' = Store(local_db, r.imo, r.name, f)
        /\ result_rows' = Append(result_rows, ResultRow(r.imo, r.name, f))
        /\ rowi' = rowi + 1
        /\ rpc' = "row"

FromCacheIgnored(entry) == [ssvid |-> None, vessel_id |-> None, source |-> None,
                            details |-> <<>>, fault |-> FALSE]

\* Lines 328-347: the next row is read and looked up in local_db.
FromCache(entry) ==
    IF entry.present /\ entry.ssvid /= Missing
    THEN Found(entry.ssvid, Get(entry.vessel_id), "local-db", <<>>, FALSE)
    ELSE Nothing(FALSE)

StartRow ==
    /\ rpc = "row"
    /\ rowi <= Len(rows)
    /\ requests' = <<>>
    /\ faulted' = FALSE
    /\ response' = NoResponse
    /\ LET f == FromCache(local_db[rows[rowi].imo])
       IN  IF Truthy(f.ssvid)
           THEN FinishRow(f)
           ELSE /\ rpc' = "combined"
                /\ UNCHANGED <<local_db, result_rows, rowi>>
    /\ UNCHANGED <<db_file, rows, gfw_search>>
    /\ UNCHANGED <<fvars, mvars, bvars>>

\* One request site of the cascade (lines 349-357): the request is sent if
\* its inputs are there; a match ends the row, otherwise the next site is
\* reached, and after the last one the row ends unresolved.
Site(site) ==
    /\ rpc = site
    /\ LET r == rows[rowi]
           asks == SiteAsks(site, r.imo, r.name)
       IN  \E reply \in IF asks THEN SearchReplies ELSE {SearchReply("none", <<>>)} :
           \E f \in IF ~asks THEN {Nothing(FALSE)}
                    ELSE IF site = "combined" THEN CombinedResults(reply)
                    ELSE SiteResults(reply, SiteSource(site)) :
             /\ requests' = IF asks THEN Append(requests, site) ELSE requests
             /\ response' = IF asks THEN Received(reply) ELSE response
             /\ faulted' = f.fault
             /\ IF Truthy(f.ssvid) \/ NextSite(site) = "end"
                THEN FinishRow(f)
                ELSE /\ rpc' = NextSite(site)
                     /\ UNCHANGED <<local_db, result_rows, rowi>>
    /\ UNCHANGED <<db_file, rows, gfw_search>>
    /\ UNCHANGED <<fvars, mvars, bvars>>

\* Lines 392-399: save_local_db() and the CSV, after the last row.
SaveDb ==
    /\ rpc = "row"
    /\ rowi > Len(rows)
    /\ db_file' = [state |-> "ok", db |-> local_db]
    /\ rpc' = "done"
    /\ UNCHANGED <<local_db, rows, rowi, requests, faulted, response, result_rows,
                   gfw_search>>
    /\ UNCHANGED <<fvars, mvars, bvars>>

NextResolve ==
    \/ StartRow
    \/ \E k \in 1..Len(Sites) : Site(Sites[k])
    \/ SaveDb

\* ---- the files the run starts from
MaxRows == 2

InputRows == [imo : RowImos, name : {"", "TEST VESSEL"}]

\* Entries a database file may hold for an IMO: a full record of an earlier
\* run, and a record without "ssvid".
FileEntries ==
    {Entry("OLD NAME", "ssvid-0", "vid-0", "GFW-name-basic", <<[shipname |-> "OLD NAME"]>>),
     Entry("OLD NAME", Missing, Missing, Missing, <<>>)}
DbFiles ==
    {[state |-> "missing", db |-> EmptyDb], [state |-> "corrupt", db |-> EmptyDb],
     [state |-> "undecodable", db |-> EmptyDb]}
    \cup {[state |-> "ok", db |-> [EmptyDb EXCEPT !["9999999"] = e]] : e \in FileEntries}

InitResolve ==
    /\ FunctionsIdle
    /\ MergeIdle
    /\ BatchIdle
    /\ db_file \in DbFiles
    /\ local_db = LoadDb(db_file)
    /\ rows \in SeqsUpTo(InputRows, MaxRows)
    /\ rowi = 1
    /\ rpc = IF LoadRaises(db_file) THEN "fatal" ELSE "row"
    /\ requests = <<>>
    /\ faulted = FALSE
    /\ response = NoResponse
    /\ result_rows = <<>>
    /\ gfw_search = "any"

Spec == InitResolve /\ [][NextResolve]_vars

\* ---- the same run against answers that hold several candidates
InitSeveral ==
    /\ FunctionsIdle
    /\ MergeIdle
    /\ BatchIdle
    /\ db_file \in DbFiles
    /\ local_db = LoadDb(db_file)
    /\ rows \in SeqsUpTo(InputRows, MaxRows)
    /\ rowi = 1
    /\ rpc = IF LoadRaises(db_file) THEN "fatal" ELSE "row"
    /\ requests = <<>>
    /\ faulted = FALSE
    /\ response = NoResponse
    /\ result_rows = <<>>
    /\ gfw_search = "several"

SpecSeveral == InitSeveral /\ [][NextResolve]_vars

\* ---- the process is stopped and the script is run again on the same input:
\* the module is loaded again (lines 32-37) and process_vessel_list starts
\* over; only the files outlive the process.
Restart ==
    /\ rpc /= "idle"
    /\ local_db' = LoadDb(db_file)
    /\ rowi' = 1
    /\ rpc' = IF LoadRaises(db_file) THEN "fatal" ELSE "row"
    /\ requests' = <<>>
    /\ faulted' = FALSE
    /\ response' = NoResponse
    /\ result_rows' = <<>>
    /\ UNCHANGED <<db_file, rows, gfw_search>>
    /\ UNCHANGED <<fvars, mvars, bvars>>

NextRestart ==
    \/ NextResolve
    \/ Restart

SpecRestart == InitResolve /\ [][NextRestart]_vars

\* ------------------------------------------------ C1
\* The time covered by a closed interval with endpoints on the grid: its grid
\* points (even codes) and the open unit segments between them (odd codes).
Cover(iv) == {2 * t : t \in iv[1]..iv[2]} \cup {2 * t + 1 : t \in iv[1]..(iv[2] - 1)}
CoverAll(l) == UNION {Cover(l[i]) : i \in 1..Len(l)}

\* C1: for a list of intervals with start <= end, merge_intervals returns a
\* list sorted by start whose intervals are pairwise disjoint (each start
\* strictly after the previous end) and which covers exactly the time the
\* input covers; the empty list gives the empty list.
C1_MergeContract ==
    (mpc = "returned" /\ WellFormed(given)) =>
        /\ \A i, j \in 1..Len(merged) : i < j => merged[i][1] <= merged[j][1]
        /\ \A i \in 1..Len(merged) : merged[i][1] <= merged[i][2]
        /\ \A i \in 1..(Len(merged) - 1) : merged[i + 1][1] > merged[i][2]
        /\ CoverAll(merged) = CoverAll(given)
        /\ (given = <<>> => merged = <<>>)

C1_Witness ==
    /\ mpc = "returned"
    /\ WellFormed(given)
    /\ Len(given) = 3
    /\ Len(merged) = 2
    /\ given[1][1] > given[2][1]
    /\ \E i \in 1..3 : given[i][2] < merged[1][2] /\ given[i][1] > merged[1][1]

\* ------------------------------------------------ C2
\* The half hours covered by the union of the intervals of a list.
CoveredUnits(l) == Cardinality({c \in CoverAll(l) : c % 2 = 1})
SpanOf(events) == [k \in 1..Len(events) |-> <<events[k].start.t, events[k].end.t>>]

Resolved(i) == details[i].found /\ Truthy(details[i].vessel_id)

ScenarioThree ==
    <<Event(Ts("ms", 0), Ts("ms", 4)), Event(Ts("ms", 3), Ts("plain", 6)),
      Event(Ts("plain", 8), Ts("ms", 10))>>
ScenarioOne == <<Event(Ts("ms", 0), Ts("ms", 1))>>

\* C2: for an identity with a vessel_id and flag "SEN", process_vessel reports
\* as total the time covered by the union of the fetched events' intervals and
\* labels the vessel "Suspect (Low fishing effort)" exactly when that total is
\* below the threshold, "Genuine" otherwise (equality is Genuine).  The events
\* 10:00-12:00, 11:30-13:00, 14:00-15:00 give 4.0 hours and Genuine at 3.0
\* hours; the single event 10:00-10:30 gives Suspect at 500 hours.
C2_ThresholdRule ==
    \A i \in Imos :
        (wpc[i] = "returned" /\ Resolved(i) /\ details[i].flag = "SEN") =>
            /\ row[i].total = <<CoveredUnits(SpanOf(all_events[i]))>>
            /\ row[i].classification \in {"Suspect (Low fishing effort)", "Genuine"}
            /\ (row[i].classification = "Suspect (Low fishing effort)")
                 <=> (row[i].total[1] < threshold)
            /\ (all_events[i] = ScenarioThree /\ threshold = Units(3)) =>
                 (row[i].total = <<Units(4)>> /\ row[i].classification = "Genuine")
            /\ (all_events[i] = ScenarioOne /\ threshold = Units(DefaultThresholdHours)) =>
                 row[i].classification = "Suspect (Low fishing effort)"

C2_Witness ==
    \E i \in Imos :
        /\ wpc[i] = "returned"
        /\ Resolved(i)
        /\ details[i].flag = "SEN"
        /\ all_events[i] = ScenarioThree
        /\ threshold = Units(3)
        /\ row[i].classification = "Genuine"

\* ------------------------------------------------ C3
\* C3: an identity without a vessel_id, whatever its flag, is reported as
\* unresolved ("No metadata" or "No vessel_id") with no total and without a
\* request to the events endpoint: the identity check comes before the flag
\* check.
C3_NullIdentityFirst ==
    \A i \in Imos :
        (wpc[i] = "returned" /\ ~Resolved(i)) =>
            /\ row[i].classification \in {"No metadata", "No vessel_id"}
            /\ row[i].total = <<>>
            /\ event_calls[i] = 0

\* ------------------------------------------------ C4
\* C4: an identity with a vessel_id whose flag is not "SEN" is reported as
\* "Suspect (Non-Senegalese flag)" with no total, and no request is sent to
\* the events endpoint for it.
C4_FlagMismatch ==
    \A i \in Imos :
        (wpc[i] \in {"fetching", "fetched", "returned", "raised"}
            /\ Resolved(i) /\ details[i].flag /= "SEN") =>
            /\ wpc[i] = "returned"
            /\ row[i].classification = "Suspect (Non-Senegalese flag)"
            /\ row[i].total = <<>>
            /\ event_calls[i] = 0

C4_Witness ==
    \E i \in Imos :
        /\ wpc[i] = "returned"
        /\ Resolved(i)
        /\ details[i].flag = "ESP"
        /\ InResults(i)

\* ------------------------------------------------ C8
\* C8: a failed lookup or a failed events request of one IMO never aborts the
\* batch: main never stops on an exception, and the report it writes holds a
\* row for every IMO.
C8_FaultsNeverAbort ==
    /\ mainpc /= "aborted"
    /\ mainpc = "written" => \A i \in Range(unique_imos) : InResults(i)

\* ------------------------------------------------ the cascade: C5-C7, C9, C10
SiteSet == Range(Sites)
SiteIndex(site) == CHOOSE k \in 1..Len(Sites) : Sites[k] = site
\* The row whose loop body has just ended, and what it reported.
RowEnded == rowi > 1 /\ rpc \in {"row", "done"}
LastRow == result_rows[rowi - 1]
\* A step that ends the loop body of the current row.
EndsRow == rowi' = rowi + 1
\* An entry holding a usable ssvid.
Hit(entry) == entry.present /\ entry.ssvid /= Missing /\ Truthy(entry.ssvid)
NetworkSources ==
    {"GFW-combined", "GFW-IMO-advanced", "GFW-name-advanced", "GFW-name-partial",
     "GFW-IMO-basic", "GFW-name-basic"}
\* The source each request is expected to report when it matches.
ExpectedSource ==
    [x \in SiteSet |->
        CASE x = "combined" -> "GFW-combined"
          [] x = "adv_imo" -> "GFW-IMO-advanced"
          [] x = "adv_name" -> "GFW-name-advanced"
          [] x = "adv_partial" -> "GFW-name-partial"
          [] x = "basic_imo" -> "GFW-IMO-basic"
          [] x = "basic_name" -> "GFW-name-basic"]
\* The ssvids the search endpoint can return.
ServedSsvids == {x.ssvid : x \in SearchInfos} \ {None}
\* The requests a row sends when none of them matches.
RECURSIVE Applicable(_, _, _)
Applicable(k, imo, name) ==
    IF k > Len(Sites) THEN <<>>
    ELSE (IF (Sites[k] = "combined" /\ Truthy(imo) /\ Truthy(name))
             \/ (Sites[k] \in {"adv_imo", "basic_imo"} /\ Truthy(imo))
             \/ (Sites[k] \in {"adv_name", "adv_partial", "basic_name"} /\ Truthy(name))
          THEN <<Sites[k]>> ELSE <<>>) \o Applicable(k + 1, imo, name)

\* C5 as stated: while the current row's IMO has an entry in local_db, no
\* registry request is sent for it.
C5_AnyEntryShortCircuits ==
    (rpc \in SiteSet /\ local_db[rows[rowi].imo].present) => requests = <<>>

\* C5 (amended): when the current row's IMO has an entry in local_db that
\* holds a non-empty ssvid, no network stage is reached for it: the row is
\* answered from the entry, with source "local-db" and no registry request.
C5_CachedSsvidShortCircuits ==
    /\ rpc \in SiteSet => ~Hit(local_db[rows[rowi].imo])
    /\ (RowEnded /\ LastRow.source = "local-db") => requests = <<>>
    /\ (RowEnded /\ requests /= <<>>) => LastRow.source /= "local-db"

C5_Witness ==
    /\ RowEnded
    /\ LastRow.source = "local-db"
    /\ Truthy(LastRow.imo)
    /\ Truthy(LastRow.name)
    /\ requests = <<>>

\* C6: the requests of a row go out in the order combined, advanced, basic;
\* a row that ends with a match ends at the request that matched, which is
\* the last one sent, and the source reported is that request's.
C6_FirstSuccessWins ==
    /\ \A a, b \in 1..Len(requests) :
          a < b => SiteIndex(requests[a]) < SiteIndex(requests[b])
    /\ (RowEnded /\ LastRow.source \in NetworkSources) =>
          /\ requests /= <<>>
          /\ LastRow.source = ExpectedSource[requests[Len(requests)]]
          /\ LastRow.ssvid /= "Not found"
    /\ (RowEnded /\ LastRow.ssvid /= "Not found") =>
          LastRow.source \in NetworkSources \cup {"local-db"}

C6_Witness ==
    /\ RowEnded
    /\ requests = <<"combined", "adv_imo">>
    /\ LastRow.source = "GFW-IMO-advanced"

\* C7: a registry request that ends in the except clause counts as having
\* found nothing: the cascade goes on to the next request site (or, after the
\* last one, the row ends unresolved), and a row that ends unresolved has
\* sent every request its inputs allow.
C7_FaultContinues ==
    /\ [](RowEnded /\ LastRow.ssvid = "Not found" =>
            requests = Applicable(1, LastRow.imo, LastRow.name))
    /\ [][(rpc \in SiteSet /\ faulted') =>
            IF rpc = "basic_name"
            THEN EndsRow /\ rpc' = "row"
                 /\ result_rows'[Len(result_rows')].ssvid = "Not found"
            ELSE rpc' = Sites[SiteIndex(rpc) + 1] /\ rowi' = rowi]_vars

C7_Witness ==
    /\ rpc = "adv_name"
    /\ faulted
    /\ requests = <<"combined", "adv_imo">>

\* C9: when every request site has been passed without a match the row ends
\* with "Not found" as ssvid, vessel id and source; an ssvid is reported only
\* if the cache entry held it or the request that just matched returned it.
C9_ExhaustionIsUnresolved ==
    [][EndsRow =>
        LET r == result_rows'[Len(result_rows')]
        IN  /\ r.imo = rows[rowi].imo
            /\ rpc = "row" =>
                 /\ r.source = "local-db"
                 /\ Hit(local_db[r.imo])
                 /\ r.ssvid = local_db[r.imo].ssvid
            /\ rpc \in SiteSet =>
                 \/ /\ rpc = "basic_name"
                    /\ r.ssvid = "Not found"
                    /\ r.vessel_id = "Not found"
                    /\ r.source = "Not found"
                 \/ /\ r.ssvid \in ServedSsvids
                    /\ r.source \in NetworkSources
                    /\ requests' = Append(requests, rpc)]_vars

C9_Witness ==
    /\ RowEnded
    /\ LastRow.ssvid = "Not found"
    /\ LastRow.source = "Not found"
    /\ Len(requests) = 6

\* C10: a row resolved by a registry request leaves its ssvid, vessel id and
\* source in local_db under its IMO when the row ends, and every later row
\* of the run with that IMO is answered from local_db with the same ssvid.
C10_StoredBeforeReturn ==
    /\ [](\A j, k \in 1..Len(result_rows) :
            (j < k /\ result_rows[j].imo = result_rows[k].imo
                   /\ result_rows[j].ssvid /= "Not found") =>
                /\ result_rows[k].source = "local-db"
                /\ result_rows[k].ssvid = result_rows[j].ssvid)
    /\ [][(EndsRow /\ rpc \in SiteSet
             /\ result_rows'[Len(result_rows')].ssvid /= "Not found") =>
            LET r == result_rows'[Len(result_rows')]
                e == local_db'[r.imo]
            IN  /\ e.present
                /\ e.ssvid = r.ssvid
                /\ OrNotFound(e.vessel_id) = r.vessel_id
                /\ e.source = r.source
                /\ e.name = r.name]_vars

C10_Witness ==
    /\ Len(result_rows) = 2
    /\ result_rows[1].imo = result_rows[2].imo
    /\ result_rows[1].source \in NetworkSources
    /\ result_rows[2].source = "local-db"
    /\ result_rows[2].ssvid = result_rows[1].ssvid

\* ------------------------------------------------ C11
\* C11: a record that a resolution of this run put into local_db under an IMO
\* is still the record of that IMO after the process stops, at whatever
\* point, and the script is started again: loading the file gives it back.
C11_StoredSurvivesRestart ==
    [][Restart =>
        \A imo \in RowImos :
            (local_db[imo].present /\ local_db[imo].source \in NetworkSources) =>
                local_db'[imo] = local_db[imo]]_vars

\* ------------------------------------------------ C12
\* C12: when a row ends with a record being stored under an IMO that already
\* has an entry, the entry afterwards holds the fields of the new record and
\* nothing else: the name, ssvid, vessel id and source just reported, and the
\* details of the new record (a record taken from local_db brings none, a
\* record of the search endpoint brings the details the endpoint served).
C12_StoreReplacesWholesale ==
    [][(EndsRow /\ local_db[rows[rowi].imo].present
          /\ result_rows'[Len(result_rows')].ssvid /= "Not found") =>
        LET r == result_rows'[Len(result_rows')]
            e == local_db'[r.imo]
        IN  /\ e.name = r.name
            /\ e.ssvid = r.ssvid
            /\ OrNotFound(e.vessel_id) = r.vessel_id
            /\ e.source = r.source
            /\ rpc = "row" => e.details = <<>>
            /\ rpc \in SiteSet =>
                 /\ e.details /= <<>>
                 /\ e.details[1].shipname \in {x.shipname : x \in SearchInfos}]_vars

\* ------------------------------------------------ C13
\* C13: a database file that is missing or whose content is corrupt never
\* stops the script: the run starts with an empty local_db and its rows go
\* through the cascade.
C13_LoadFailureNotFatal ==
    /\ rpc /= "fatal"
    /\ (rowi = 1 /\ rpc = "row" /\ result_rows = <<>> /\ db_file.state /= "ok") =>
          local_db = EmptyDb

\* ------------------------------------------------ C14
\* What a sub-record supplies for a field: <<>> when the sub-record is not
\* there or has no value for it.
Supplied(info, field) ==
    IF info = <<>> THEN <<>>
    ELSE LET v == info[1][field]
         IN  IF v = Missing \/ ~Truthy(v) THEN <<>> ELSE <<v>>
RecordField(field) == IF field = "shipname" THEN "name"
                      ELSE IF field = "id" THEN "vessel_id" ELSE "flag"

\* C14: each of vessel_id, flag and name of the record get_vessel_details
\* returns is the registryInfo value when registryInfo supplies one, and the
\* selfReportedInfo value when registryInfo does not and selfReportedInfo does.
C14_RegistryFirst ==
    (dpc = "returned" /\ data.kind = "ok" /\ data.entries /= <<>>) =>
        \A field \in {"id", "flag", "shipname"} :
            LET reg == Supplied(data.entries[1].registryInfo, field)
                srep == Supplied(data.entries[1].selfReportedInfo, field)
            IN  /\ reg /= <<>> => result[RecordField(field)] = reg[1]
                /\ (reg = <<>> /\ srep /= <<>>) => result[RecordField(field)] = srep[1]

\* ------------------------------------------------ C15
\* C15: the name in every record get_vessel_details returns and in every row
\* process_vessel returns is a non-empty string: a name or "Unknown".
C15_NameNeverNull ==
    \A i \in Imos :
        /\ (wpc[i] /= "queued" /\ details[i].found) => Truthy(details[i].name)
        /\ wpc[i] = "returned" => Truthy(row[i].name)

\* ------------------------------------------------ C16
\* The rearrangements of a list.
Perms(n) == {p \in [1..n -> 1..n] : \A a, b \in 1..n : a /= b => p[a] /= p[b]}
Permuted(l, p) == [k \in 1..Len(l) |-> l[p[k]]]

\* C16: for a list of intervals with start <= end, merge_intervals returns the
\* same merged list for every rearrangement of the list, so the summed
\* duration is the same too.
C16_PermutationInvariance ==
    (mpc = "returned" /\ WellFormed(given)) =>
        \A p \in Perms(Len(given)) :
            LET m == merge_intervals(Permuted(given, p)).merged
            IN  /\ m = merged
                /\ SumDurations(m) = SumDurations(merged)

C16_Witness ==
    /\ mpc = "returned"
    /\ WellFormed(given)
    /\ Len(given) = 3
    /\ given[1][1] > given[3][1]
    /\ given[2][1] = given[3][1]
    /\ given[2][2] > given[3][2]
    /\ Len(merged) = 1

\* ------------------------------------------------ C17
\* C17: merging the list merge_intervals returned gives that list again, for
\* every list of intervals (start <= end or not).
C17_Idempotence ==
    mpc = "returned" => merge_intervals(merged).merged = merged

C17_Witness ==
    /\ mpc = "returned"
    /\ Len(given) = 3
    /\ Len(merged) = 2
    /\ merged /= given
    /\ \E k \in 1..3 : given[k][1] > given[k][2]

\* ------------------------------------------------ C18
RECURSIVE Longest(_)
Longest(l) ==
    IF l = <<>> THEN 0
    ELSE LET d == Head(l)[2] - Head(l)[1]
             m == Longest(Tail(l))
         IN  IF d >= m THEN d ELSE m
Parseable(ev) ==
    \A k \in 1..Len(ev) : /\ ev[k].start.fmt \in {"ms", "plain"}
                          /\ ev[k].end.fmt \in {"ms", "plain"}
                          /\ ev[k].start.t <= ev[k].end.t
RECURSIVE SumSpans(_)
SumSpans(l) == IF l = <<>> THEN 0 ELSE (Head(l)[2] - Head(l)[1]) + SumSpans(Tail(l))

\* C18: for a non-empty list of events with parseable timestamps and start <=
\* end, the total reported is at least the duration of the longest event and
\* at most the sum of the durations of all events.
C18_TotalBounds ==
    \A i \in Imos :
        (wpc[i] = "returned" /\ row[i].total /= <<>> /\ all_events[i] /= <<>>
            /\ Parseable(all_events[i])) =>
            /\ row[i].total[1] >= Longest(SpanOf(all_events[i]))
            /\ row[i].total[1] <= SumSpans(SpanOf(all_events[i]))

C18_Witness ==
    \E i \in Imos :
        /\ wpc[i] = "returned"
        /\ all_events[i] = <<Event(Ts("ms", 0), Ts("ms", 4)), Event(Ts("ms", 0), Ts("ms", 1)),
                             Event(Ts("ms", 3), Ts("plain", 6))>>
        /\ row[i].total = <<6>>

\* ------------------------------------------------ C19
\* The events with a start and an end that parse, as (start, end) pairs.
Kept(ev) ==
    SelectSeq(ev, LAMBDA e : e.start.fmt \in {"ms", "plain"} /\ e.end.fmt \in {"ms", "plain"})

\* C19: parse_timestamp reads the form with a fraction of a second and the
\* form without as the same instant; calculate_total_hours returns a total
\* for every list of events, and that total is the total of the events left
\* when those with a missing or unparseable start or end are taken out (the
\* time their union covers, when each has start <= end).
C19_UnparseableDropped ==
    /\ \A t \in 0..MaxStamp :
          /\ parse_timestamp(Ts("ms", t)) = <<t>>
          /\ parse_timestamp(Ts("plain", t)) = <<t>>
    /\ parse_timestamp(Ts("bad", 0)) = <<>>
    /\ tpc = "returned" =>
          /\ Len(returned_hours) = 1
          /\ returned_hours[1] = SumSpans(merge_intervals(SpanOf(Kept(given_events))).merged)
          /\ Parseable(Kept(given_events)) =>
                returned_hours[1] = CoveredUnits(SpanOf(Kept(given_events)))

C19_Witness ==
    /\ tpc = "returned"
    /\ Len(given_events) = 2
    /\ given_events[1].start.fmt = "bad"
    /\ given_events[2] = Event(Ts("plain", 0), Ts("ms", 1))
    /\ returned_hours = <<1>>

\* ------------------------------------------------ C20
\* C20: every request of fetch_fishing_events carries as offset the number of
\* events collected so far; a page adds its entries behind them and moves the
\* offset by their number; the loop ends at the first page without entries
\* or without nextOffset and sends no request after that; the events handed
\* to calculate_total_hours are all the events collected.
C20_Pagination ==
    /\ [](\A i \in Imos :
            /\ offset[i] = Len(all_events[i])
            /\ (wpc[i] = "fetching" /\ event_calls[i] > 0) => next_offset[i] = "present"
            /\ next_offset[i] = "absent" => wpc[i] = "fetched"
            /\ (wpc[i] = "returned" /\ row[i].total /= <<>>) =>
                  row[i].total = <<calculate_total_hours(all_events[i])>>)
    /\ [][\A i \in Imos :
            /\ event_calls'[i] /= event_calls[i] =>
                  /\ wpc[i] = "fetching"
                  /\ event_calls'[i] = event_calls[i] + 1
                  /\ Len(all_events'[i]) >= Len(all_events[i])
                  /\ SubSeq(all_events'[i], 1, Len(all_events[i])) = all_events[i]
                  /\ offset'[i] = offset[i] + (Len(all_events'[i]) - Len(all_events[i]))
                  /\ Len(all_events'[i]) = Len(all_events[i]) => wpc'[i] /= "fetching"
            /\ wpc[i] /= "fetching" =>
                  /\ event_calls'[i] = event_calls[i]
                  /\ all_events'[i] = all_events[i]
                  /\ offset'[i] = offset[i]]_vars

C20_Witness ==
    \E i \in Imos :
        /\ wpc[i] = "returned"
        /\ event_calls[i] = 3
        /\ offset[i] = 3
        /\ Len(all_events[i]) = 3
        /\ row[i].total /= <<>>

\* ------------------------------------------------ C22
\* C22: a row answered from local_db leaves the entry of its IMO as it was:
\* name, ssvid, vessel id, source and details are the same after the row as
\* before it.
C22_HitLeavesEntry ==
    [][(EndsRow /\ rpc = "row") => local_db'[rows[rowi].imo] = local_db[rows[rowi].imo]]_vars

\* ------------------------------------------------ C27
\* The events with a start and an end that parse and start <= end.
Forward(ev) == SelectSeq(Kept(ev), LAMBDA e : e.start.t <= e.end.t)

\* C27: an event whose start is after its end adds nothing to the total and
\* takes nothing from it: the total calculate_total_hours returns is never
\* negative and is the total of the other events.
C27_InvertedNeverCounts ==
    tpc = "returned" =>
        /\ returned_hours[1] >= 0
        /\ returned_hours[1] = CoveredUnits(SpanOf(Forward(given_events)))

\* ------------------------------------------------ C28
\* C28: after merge_intervals has returned, the list the caller passed holds
\* the same intervals in the same order as before the call.
C28_InputUntouched ==
    mpc = "returned" => intervals = given

\* ------------------------------------------------ C23
\* A step in which a registry request is sent, and whether the row ends with
\* that request's match.
Requests == rpc \in SiteSet /\ requests' = Append(requests, rpc)
Matches == EndsRow /\ result_rows'[Len(result_rows')].ssvid /= "Not found"
\* The cascade goes on: to the next site, or past the last one.
GoesOn ==
    IF rpc = "basic_name"
    THEN EndsRow /\ result_rows'[Len(result_rows')].ssvid = "Not found"
    ELSE rpc' = Sites[SiteIndex(rpc) + 1] /\ rowi' = rowi

AdvancedSites == <<"adv_imo", "adv_name", "adv_partial">>
BasicSites == <<"basic_imo", "basic_name">>
\* The row the requests sent so far belong to.
RequestsRow == IF rpc \in SiteSet THEN rows[rowi] ELSE rows[rowi - 1]
KeyedOnImo(site) == site \in {"combined", "adv_imo", "basic_imo"}
KeyedOnName(site) == site \in {"combined", "adv_name", "adv_partial", "basic_name"}
HasInputs(site, r) ==
    /\ KeyedOnImo(site) => Truthy(r.imo)
    /\ KeyedOnName(site) => Truthy(r.name)
\* The requests of a stage sent so far are the first ones, in the stage's
\* order, of those the row's inputs allow.
InStageOrder(stage) ==
    LET asked == SelectSeq(requests, LAMBDA x : x \in Range(stage))
        due == SelectSeq(stage, LAMBDA x : HasInputs(x, RequestsRow))
    IN  /\ Len(asked) <= Len(due)
        /\ asked = SubSeq(due, 1, Len(asked))

\* C25: the advanced stage asks by IMO, then by exact name, then by partial
\* name, and the basic stage by IMO, then by name; a request of a stage is
\* sent only after the earlier ones of the stage found nothing (a match
\* ends the row at the request that matched), and the source reported names
\* that request.
C25_SubStageOrder ==
    requests /= <<>> =>
        /\ InStageOrder(AdvancedSites)
        /\ InStageOrder(BasicSites)
        /\ \A k \in 1..Len(Sites) :
              (RowEnded /\ LastRow.source = ExpectedSource[Sites[k]]) =>
                  /\ requests[Len(requests)] = Sites[k]
                  /\ \A j \in 1..(Len(requests) - 1) : requests[j] /= Sites[k]

C25_Witness ==
    /\ RowEnded
    /\ requests = <<"combined", "adv_imo", "adv_name", "adv_partial">>
    /\ LastRow.source = "GFW-name-partial"

\* ------------------------------------------------ C26
\* C26: the combined request is sent only for a row with an IMO and a name,
\* and every other request only for a row that has the identifier it is
\* keyed on.
C26_InputsGateRequests ==
    \A k \in 1..Len(requests) : HasInputs(requests[k], RequestsRow)

C26_Witness ==
    /\ RowEnded
    /\ LastRow.imo = ""
    /\ Truthy(LastRow.name)
    /\ requests = <<"adv_name", "adv_partial", "basic_name">>
    /\ LastRow.ssvid = "Not found"

\* ------------------------------------------------ C30
\* C30: a combined request answered with status 200 and at least one ssvid
\* ends the row with source "GFW-combined"; when no entry carries a vessel
\* id the vessel id is reported as not found.
C30_CombinedWithoutVesselId ==
    [][(Requests /\ rpc = "combined" /\ response'.kind = "ok"
          /\ response'.ssvids /= <<>>) =>
        /\ EndsRow
        /\ result_rows'[Len(result_rows')].source = "GFW-combined"
        /\ response'.vessel_ids = <<>> =>
              result_rows'[Len(result_rows')].vessel_id = "Not found"]_vars

\* ------------------------------------------------ C24
\* C24: when the answer that matched holds several candidates, the ssvid and
\* the vessel id reported are those of the first candidate in the order of
\* the response.
C24_FirstCandidate ==
    [][(Requests /\ Matches) =>
        LET r == result_rows'[Len(result_rows')]
        IN  /\ r.ssvid = response'.ssvids[1]
            /\ response'.vessel_ids /= <<>> => r.vessel_id = response'.vessel_ids[1]]_vars

\* ------------------------------------------------ C21
\* The row process_vessel returns for an IMO, from what that IMO's own lookup
\* and events requests were answered.
OwnRow(i) ==
    IF BeforeFetch(i, details[i]).classification = "fetch"
    THEN AfterFetch(i, details[i], all_events[i], threshold)
    ELSE BeforeFetch(i, details[i])

\* C21: whatever the order in which the workers run and finish, results never
\* holds two rows for one IMO, the report is written with exactly one row
\* for every IMO of the input, each row is the one that IMO's own answers
\* give, and a step of one worker changes nothing of another worker.
C21_WorkersIndependent ==
    /\ [](/\ \A a, b \in 1..Len(results) : a /= b => results[a].IMO /= results[b].IMO
          /\ \A k \in 1..Len(results) :
                /\ results[k].IMO \in Range(unique_imos)
                /\ results[k] = OwnRow(results[k].IMO)
          /\ mainpc = "written" =>
                /\ Len(results) = Len(unique_imos)
                /\ \A i \in Range(unique_imos) : InResults(i))
    /\ [][\A i, j \in Imos :
            (i /= j /\ wpc'[i] /= wpc[i]) =>
                /\ wpc'[j] = wpc[j]
                /\ details'[j] = details[j]
                /\ all_events'[j] = all_events[j]
                /\ offset'[j] = offset[j]
                /\ row'[j] = row[j]]_vars

C21_Witness ==
    /\ mainpc = "written"
    /\ Len(results) = 2
    /\ results[1].IMO = unique_imos[2]
    /\ results[1].classification = "Suspect (Low fishing effort)"
    /\ results[2].classification = "Suspect (Non-Senegalese flag)"

\* ------------------------------------------------ C29
\* C29: a request that never gets a response does not hold the batch up for
\* ever: the work for every IMO comes to an end, and so does main.
C29_StuckCallTimesOut ==
    /\ \A i \in Imos : (wpc[i] = "queued") ~> (wpc[i] \in {"returned", "raised"})
    /\ <>(mainpc \in {"written", "aborted"})

====
